---- MODULE Spec2Model ----
(***************************************************************************)
(* A model of the Mobile Data Analyst dashboard: its statistics layer,     *)
(* DataProcessor (src/utils/data_processor.py) and InsightGenerator        *)
(* (src/utils/insight_generator.py), and the session of the upload app     *)
(* (src/app.py).                                                           *)
(*                                                                         *)
(* A dataset (a pandas DataFrame) is a sequence of columns; a column is a  *)
(* record [name, dtype, vals] and a cell is <<>> (null / NaN) or <<x>>.    *)
(* Floating point results are kept exact: a quantile is held in eighths,   *)
(* a z-score and a correlation as the integers of their quotient, and the  *)
(* IEEE results NaN and inf of a division by zero are modelled as such.    *)
(***************************************************************************)
EXTENDS Integers, Sequences, FiniteSets, TLC

VARIABLES data, call, ret, locals, rounding, firstCall, session, app

vars == <<data, call, ret, locals, rounding, firstCall, session, app>>

----------------------------------------------------------------------------
(* Bounds of the model. *)

\* the longest column the column specification enumerates in full
MaxRows == 4

\* the widest dataset of the correlation specification
MaxCols == 4

\* the longest dataset of the insights specification
MaxInsightRows == 3

----------------------------------------------------------------------------
(* Cells, columns, datasets. *)

Null == <<>>

Num(x) == <<x>>

IsNull(c) == c = <<>>

Val(c) == c[1]

\* the numeric cells of the column specification (with the spec's example
\* A = [1,2,3,4,100]) and the text cells of an object column
NumCells == {Null, Num(1), Num(2), Num(3), Num(4), Num(100)}

StrCells == {Null, <<"x">>, <<"y">>}

Column(n, d, v) == [name |-> n, dtype |-> d, vals |-> v]

\* len(self.data): the number of rows
NumRows(df) == IF Len(df) = 0 THEN 0 ELSE Len(df[1].vals)

\* column in self.data.columns
HasColumn(df, column) == \E k \in 1..Len(df) : df[k].name = column

\* self.data[column], for a column the dataset has
GetColumn(df, column) == df[CHOOSE k \in 1..Len(df) : df[k].name = column]

\* pd.api.types.is_numeric_dtype
IsNumericDtype(dtype) == dtype \in {"int64", "float64"}

----------------------------------------------------------------------------
(* Results of a call. *)

\* a number num/den, den > 0: a threshold
Rat(n, d) == [num |-> n, den |-> d]

\* the method called last and its arguments
Call(op, column, method, threshold) ==
    [op |-> op, column |-> column, method |-> method, threshold |-> threshold]

NoCall == Call("none", "", "", Rat(0, 1))

Idle == [kind |-> "idle", val |-> <<>>, exc |-> ""]

Return(v) == [kind |-> "return", val |-> v, exc |-> ""]

\* return None
ReturnNone == [kind |-> "None", val |-> <<>>, exc |-> ""]

Raise(e) == [kind |-> "raise", val |-> <<>>, exc |-> e]

NoLocals == [set |-> FALSE]

\* the first call made on the dataset, its result, and whether another call
\* was made after it: none made yet
NoFirst == [made |-> FALSE]

\* None, and a value that is not None
None == [none |-> TRUE]

Some(v) == [none |-> FALSE, val |-> v]

\* st.session_state after the initialisation of main: data, processor and
\* insights are None
NoSession == [data |-> None, processor |-> None, insights |-> None]

\* no run of the app script
NoRun == [pc |-> "none"]

----------------------------------------------------------------------------
(* Sequences of numbers. *)

RECURSIVE SumSeq(_)
SumSeq(s) == IF s = <<>> THEN 0 ELSE Head(s) + SumSeq(Tail(s))

RECURSIVE Insert(_, _)
Insert(x, s) ==
    IF s = <<>> THEN <<x>>
    ELSE IF x <= Head(s) THEN <<x>> \o s
    ELSE <<Head(s)>> \o Insert(x, Tail(s))

RECURSIVE SortAsc(_)
SortAsc(s) == IF s = <<>> THEN <<>> ELSE Insert(Head(s), SortAsc(Tail(s)))

Abs(x) == IF x < 0 THEN -x ELSE x

\* Series.dropna(): the non-null cells with their row index (0-based, the
\* RangeIndex of a loaded frame), in row order
RECURSIVE DropNaFrom(_, _)
DropNaFrom(vals, k) ==
    IF k > Len(vals) THEN <<>>
    ELSE IF IsNull(vals[k]) THEN DropNaFrom(vals, k + 1)
    ELSE <<[index |-> k - 1, value |-> Val(vals[k])]>> \o DropNaFrom(vals, k + 1)

DropNa(vals) == DropNaFrom(vals, 1)

Values(col_data) == [k \in 1..Len(col_data) |-> col_data[k].value]

----------------------------------------------------------------------------
(* Floating point values of the outlier bounds, in eighths: a quantile of  *)
(* integers by linear interpolation is a multiple of 1/4 and 1.5 * IQR a   *)
(* multiple of 1/8. NaN compares false with everything.                    *)

NaN == [nan |-> TRUE, x |-> 0]

Fl(x) == [nan |-> FALSE, x |-> x]

FSub(a, b) == IF a.nan \/ b.nan THEN NaN ELSE Fl(a.x - b.x)

FAdd(a, b) == IF a.nan \/ b.nan THEN NaN ELSE Fl(a.x + b.x)

\* 1.5 * a, for a an even number of eighths
OneAndHalf(a) == IF a.nan THEN NaN ELSE Fl((3 * a.x) \div 2)

FLt(a, b) == ~a.nan /\ ~b.nan /\ a.x < b.x

FGt(a, b) == ~a.nan /\ ~b.nan /\ a.x > b.x

FLe(a, b) == ~a.nan /\ ~b.nan /\ a.x <= b.x

\* Series.quantile(k/4), interpolation='linear': the value at position
\* (n-1)*k/4 of the sorted values, interpolated between its neighbours; NaN
\* for an empty series
Quantile(values, k) ==
    IF Len(values) = 0 THEN NaN
    ELSE LET s  == SortAsc(values)
             h  == k * (Len(s) - 1)
             lo == h \div 4
             r  == h % 4
         IN  IF r = 0 THEN Fl(8 * s[lo + 1])
             ELSE Fl(8 * s[lo + 1] + 2 * r * (s[lo + 2] - s[lo + 1]))

\* the quartiles taken the wrong way round: Q1 at 0.75 and Q3 at 0.25
IqrBounds_QuartilesSwapped(values) ==
    LET Q1  == Quantile(values, 3)
        Q3  == Quantile(values, 1)
        IQR == FSub(Q3, Q1)
    IN  [set |-> TRUE, Q1 |-> Q1, Q3 |-> Q3, IQR |-> IQR,
         lower_bound |-> FSub(Q1, OneAndHalf(IQR)),
         upper_bound |-> FAdd(Q3, OneAndHalf(IQR))]

\* Q1 .. upper_bound of detect_outliers
IqrBounds(values) ==
    LET Q1  == Quantile(values, 1)
        Q3  == Quantile(values, 3)
        IQR == FSub(Q3, Q1)
    IN  [set |-> TRUE, Q1 |-> Q1, Q3 |-> Q3, IQR |-> IQR,
         lower_bound |-> FSub(Q1, OneAndHalf(IQR)),
         upper_bound |-> FAdd(Q3, OneAndHalf(IQR))]

\* the comparisons made inclusive: a value on a bound is flagged
OutsideBounds_Inclusive(v, b) == FLe(Fl(8 * v), b.lower_bound) \/ FLe(b.upper_bound, Fl(8 * v))

\* (col_data < lower_bound) | (col_data > upper_bound), for one value
OutsideBounds(v, b) == FLt(Fl(8 * v), b.lower_bound) \/ FGt(Fl(8 * v), b.upper_bound)

\* a division by a zero standard deviation taken as an infinite z-score
ZScoreAbove3_ZeroStdIsInf(dev, ss, n) ==
    IF n <= 1 THEN FALSE
    ELSE IF ss = 0 THEN TRUE
    ELSE dev * dev * (n - 1) > 9 * ss

\* np.abs((x - mean) / std) > 3 for one value, with dev = n * (x - mean) and
\* ss = n^2 * sum((x - mean)^2) over the n values; std is the sample standard
\* deviation (ddof = 1): NaN for n <= 1; 0/0 is NaN, d/0 is inf
ZScoreAbove3(dev, ss, n) ==
    IF n <= 1 THEN FALSE
    ELSE IF ss = 0 THEN dev # 0
    ELSE dev * dev * (n - 1) > 9 * ss

\* (a variant that returns positions in col_data, not row indices)
RECURSIVE IndexWhere_Positional(_, _, _)
IndexWhere_Positional(col_data, mask, k) ==
    IF k > Len(col_data) THEN <<>>
    ELSE IF mask[k]
         THEN <<k - 1>> \o IndexWhere_Positional(col_data, mask, k + 1)
         ELSE IndexWhere_Positional(col_data, mask, k + 1)

\* col_data[mask].index.tolist(): the row indices where the mask is True
RECURSIVE IndexWhere(_, _, _)
IndexWhere(col_data, mask, k) ==
    IF k > Len(col_data) THEN <<>>
    ELSE IF mask[k]
         THEN <<col_data[k].index>> \o IndexWhere(col_data, mask, k + 1)
         ELSE IndexWhere(col_data, mask, k + 1)

IqrOutliers(col_data) ==
    LET b    == IqrBounds(Values(col_data))
        mask == [k \in 1..Len(col_data) |-> OutsideBounds(col_data[k].value, b)]
    IN  IndexWhere(col_data, mask, 1)

ZScoreOutliers(col_data) ==
    LET xs == Values(col_data)
        n  == Len(xs)
        S  == SumSeq(xs)
        ss == SumSeq([k \in 1..n |-> (n * xs[k] - S) * (n * xs[k] - S)])
        z_above == [k \in 1..n |-> ZScoreAbove3(n * xs[k] - S, ss, n)]
    IN  IndexWhere(col_data, z_above, 1)

\* DataProcessor.detect_outliers: the result and, for the IQR method, the
\* bounds it computed
detect_outliers(df, column, method) ==
    IF ~HasColumn(df, column)
    THEN [ret |-> Raise("KeyError"), locals |-> NoLocals]
    ELSE IF ~IsNumericDtype(GetColumn(df, column).dtype)
    THEN [ret |-> Return(<<>>), locals |-> NoLocals]
    ELSE LET col_data == DropNa(GetColumn(df, column).vals)
         IN  IF method = "iqr"
             THEN [ret |-> Return(IqrOutliers(col_data)),
                   locals |-> IqrBounds(Values(col_data))]
             ELSE [ret |-> Return(ZScoreOutliers(col_data)), locals |-> NoLocals]

\* the sign of the rounding residue np.polyfit may leave where the exact
\* least squares slope is 0: the fit is solved in floating point (a scaled
\* Vandermonde matrix, an SVD), so the slope of a column without trend comes
\* out as 0 or as a value of the order of 1e-16 of either sign. The residue
\* is a matter of the values fitted, the same at every call on them: the
\* variable rounding holds it
Residues == {-1, 0, 1}

\* the fit made with x and y exchanged in the numerator: sum(i)*sum(y) - n*sum(i*y)
PolyfitSlope_Negated(ys, residue) ==
    LET n   == Len(ys)
        Sx  == SumSeq([k \in 1..n |-> k - 1])
        Sxx == SumSeq([k \in 1..n |-> (k - 1) * (k - 1)])
        Sy  == SumSeq(ys)
        Sxy == SumSeq([k \in 1..n |-> (k - 1) * ys[k]])
        num == Sx * Sy - n * Sxy
    IN  [num |-> num, den |-> n * Sxx - Sx * Sx,
         residue |-> IF num = 0 THEN residue ELSE 0]

\* np.polyfit(np.arange(n), y, 1)[0]: the least squares slope
\* (n*sum(i*y) - sum(i)*sum(y)) / (n*sum(i^2) - sum(i)^2), as num / den,
\* with the residue left where num is 0
PolyfitSlope(ys, residue) ==
    LET n   == Len(ys)
        Sx  == SumSeq([k \in 1..n |-> k - 1])
        Sxx == SumSeq([k \in 1..n |-> (k - 1) * (k - 1)])
        Sy  == SumSeq(ys)
        Sxy == SumSeq([k \in 1..n |-> (k - 1) * ys[k]])
        num == n * Sxy - Sx * Sy
    IN  [num |-> num, den |-> n * Sxx - Sx * Sx,
         residue |-> IF num = 0 THEN residue ELSE 0]

\* the sign of a slope (den > 0 for two or more points)
SlopeSign(slope) ==
    IF slope.num > 0 THEN 1
    ELSE IF slope.num < 0 THEN -1
    ELSE slope.residue

\* if slope > 0 .. elif slope < 0 .. else
TrendDesc(slope) ==
    IF SlopeSign(slope) > 0 THEN "Increasing trend"
    ELSE IF SlopeSign(slope) < 0 THEN "Decreasing trend"
    ELSE "No clear trend"

\* the dtype guard dropped: np.polyfit raises TypeError on text values
analyze_trends_NoDtypeGuard(df, column, residue) ==
    IF ~HasColumn(df, column) THEN Raise("KeyError")
    ELSE LET col_data == DropNa(GetColumn(df, column).vals)
         IN  IF Len(col_data) < 3 THEN ReturnNone
             ELSE IF ~IsNumericDtype(GetColumn(df, column).dtype) THEN Raise("TypeError")
             ELSE LET slope == PolyfitSlope(Values(col_data), residue)
                  IN  Return([column |-> column, slope |-> slope,
                              description |-> TrendDesc(slope)])

\* the length guard one short: a fit through two values is returned
analyze_trends_MinTwo(df, column, residue) ==
    IF ~HasColumn(df, column) THEN Raise("KeyError")
    ELSE IF ~IsNumericDtype(GetColumn(df, column).dtype) THEN ReturnNone
    ELSE LET col_data == DropNa(GetColumn(df, column).vals)
         IN  IF Len(col_data) < 2 THEN ReturnNone
             ELSE LET slope == PolyfitSlope(Values(col_data), residue)
                  IN  Return([column |-> column, slope |-> slope,
                              description |-> TrendDesc(slope)])

\* DataProcessor.analyze_trends
analyze_trends(df, column, residue) ==
    IF ~HasColumn(df, column) THEN Raise("KeyError")
    ELSE IF ~IsNumericDtype(GetColumn(df, column).dtype) THEN ReturnNone
    ELSE LET col_data == DropNa(GetColumn(df, column).vals)
         IN  IF Len(col_data) < 3 THEN ReturnNone
             ELSE LET slope == PolyfitSlope(Values(col_data), residue)
                  IN  Return([column |-> column, slope |-> slope,
                              description |-> TrendDesc(slope)])

----------------------------------------------------------------------------
(* The column specification: a DataProcessor over a dataset of one column  *)
(* "A", and calls of detect_outliers and analyze_trends on it.             *)

\* a loaded numeric column is int64 without nulls and float64 with them
NumDtype(vals) == IF \E k \in 1..Len(vals) : IsNull(vals[k]) THEN "float64" ELSE "int64"

\* the worked example of the specification: A = [1,2,3,4,100]
ExampleColumn == <<Num(1), Num(2), Num(3), Num(4), Num(100)>>

\* a column with a gap before its extreme value: ten 1s, a null and 100
\* (the smallest number of values the z-score method can flag one of is 11)
ExampleGappedColumn ==
    [k \in 1..12 |-> IF k <= 10 THEN Num(1) ELSE IF k = 11 THEN Null ELSE Num(100)]

\* the datasets of one column "A": a numeric column of 1..MaxRows cells, the
\* examples, or a text column of 0..MaxRows cells (a file with a header and
\* no rows loads as object columns, so a numeric column has a row)
IsColumnDataset(df) ==
    \/ \E n \in 1..MaxRows : \E v \in [1..n -> NumCells] :
          df = <<Column("A", NumDtype(v), v)>>
    \/ \E v \in {ExampleColumn, ExampleGappedColumn} :
          df = <<Column("A", NumDtype(v), v)>>
    \/ \E n \in 0..MaxRows : \E v \in [1..n -> StrCells] :
          df = <<Column("A", "object", v)>>

\* the column names a call is made with: "B" is no column of the dataset
ColumnArgs == {"A", "B"}

Methods == {"iqr", "zscore"}

Init ==
    /\ IsColumnDataset(data)
    /\ call = NoCall
    /\ ret = Idle
    /\ locals = NoLocals
    /\ rounding \in Residues
    /\ firstCall = NoFirst
    /\ session = NoSession
    /\ app = NoRun

DetectOutliers(column, method) ==
    LET r == detect_outliers(data, column, method)
    IN  /\ call' = Call("detect_outliers", column, method, Rat(0, 1))
        /\ ret' = r.ret
        /\ locals' = r.locals
        /\ UNCHANGED <<data, rounding, firstCall, session, app>>

AnalyzeTrends(column) ==
    /\ call' = Call("analyze_trends", column, "", Rat(0, 1))
    /\ ret' = analyze_trends(data, column, rounding)
    /\ locals' = NoLocals
    /\ UNCHANGED <<data, rounding, firstCall, session, app>>

Next ==
    \/ \E column \in ColumnArgs, method \in Methods : DetectOutliers(column, method)
    \/ \E column \in ColumnArgs : AnalyzeTrends(column)

Spec == Init /\ [][Next]_vars

----------------------------------------------------------------------------
(* Correlations: DataProcessor.get_correlation_matrix and                  *)
(* InsightGenerator.find_strong_correlations.                              *)

\* correlations[:5]
TopN == 5

\* threshold=0.7
DefaultThreshold == Rat(7, 10)

\* self.data.select_dtypes(include=[np.number]): the numeric columns, in
\* dataset order
RECURSIVE SelectNumber(_)
SelectNumber(df) ==
    IF df = <<>> THEN <<>>
    ELSE IF Head(df).dtype \in {"int64", "float64"}
         THEN <<Head(df)>> \o SelectNumber(Tail(df))
         ELSE SelectNumber(Tail(df))

\* Pearson's r of two columns over the rows where both are non-null
\* (DataFrame.corr, pairwise complete), kept exact as r = num / sqrt(den)
\* with num = n*Sxy - Sx*Sy and den = (n*Sxx - Sx^2) * (n*Syy - Sy^2);
\* NaN when there is no such row or either side has no variance
Pearson(xs, ys) ==
    LET rows == {k \in 1..Len(xs) : ~IsNull(xs[k]) /\ ~IsNull(ys[k])}
        n    == Cardinality(rows)
        X(k) == IF k \in rows THEN Val(xs[k]) ELSE 0
        Y(k) == IF k \in rows THEN Val(ys[k]) ELSE 0
        Sx   == SumSeq([k \in 1..Len(xs) |-> X(k)])
        Sy   == SumSeq([k \in 1..Len(xs) |-> Y(k)])
        Sxx  == SumSeq([k \in 1..Len(xs) |-> X(k) * X(k)])
        Syy  == SumSeq([k \in 1..Len(xs) |-> Y(k) * Y(k)])
        Sxy  == SumSeq([k \in 1..Len(xs) |-> X(k) * Y(k)])
        den  == (n * Sxx - Sx * Sx) * (n * Syy - Sy * Sy)
    IN  IF den = 0 THEN [nan |-> TRUE, num |-> 0, den |-> 1]
        ELSE [nan |-> FALSE, num |-> n * Sxy - Sx * Sy, den |-> den]

\* the guard one short: a single numeric column gets its 1x1 matrix
get_correlation_matrix_MinOne(df) ==
    LET numeric_cols == SelectNumber(df)
    IN  IF Len(numeric_cols) < 1 THEN [none |-> TRUE, columns |-> <<>>, iloc |-> <<>>]
        ELSE [none |-> FALSE,
              columns |-> [k \in 1..Len(numeric_cols) |-> numeric_cols[k].name],
              iloc |-> [i \in 1..Len(numeric_cols) |->
                          [j \in 1..Len(numeric_cols) |->
                              Pearson(numeric_cols[i].vals, numeric_cols[j].vals)]]]

\* DataProcessor.get_correlation_matrix: None below two numeric columns,
\* else the matrix over the numeric columns (the columns and iloc[i, j])
get_correlation_matrix(df) ==
    LET numeric_cols == SelectNumber(df)
    IN  IF Len(numeric_cols) < 2 THEN [none |-> TRUE, columns |-> <<>>, iloc |-> <<>>]
        ELSE [none |-> FALSE,
              columns |-> [k \in 1..Len(numeric_cols) |-> numeric_cols[k].name],
              iloc |-> [i \in 1..Len(numeric_cols) |->
                          [j \in 1..Len(numeric_cols) |->
                              Pearson(numeric_cols[i].vals, numeric_cols[j].vals)]]]

\* abs(corr_value) >= threshold; False for NaN
AbsAtLeast(r, t) ==
    /\ ~r.nan
    /\ \/ t.num <= 0
       \/ r.num * r.num * t.den * t.den >= t.num * t.num * r.den

\* abs(a) > abs(b), for correlations that are not NaN
AbsGreater(a, b) == a.num * a.num * b.den > b.num * b.num * a.den

\* the two labels the wrong way round
Strength_Inverted(r) == IF r.num > 0 THEN "Strong negative" ELSE "Strong positive"

\* 'Strong positive' if corr_value > 0 else 'Strong negative'
Strength(r) == IF r.num > 0 THEN "Strong positive" ELSE "Strong negative"

\* for j in range(from, n): the entries the inner loop appends for row i
RECURSIVE PairsOfRow(_, _, _, _)
PairsOfRow(m, i, j, threshold) ==
    IF j > Len(m.columns) THEN <<>>
    ELSE LET corr_value == m.iloc[i][j]
         IN  IF AbsAtLeast(corr_value, threshold)
             THEN <<[var1 |-> m.columns[i], var2 |-> m.columns[j],
                     correlation |-> corr_value,
                     strength |-> Strength(corr_value)]>>
                  \o PairsOfRow(m, i, j + 1, threshold)
             ELSE PairsOfRow(m, i, j + 1, threshold)

\* the inner loop run over every j, the diagonal and the lower triangle
\* included
RECURSIVE StrongPairs_FullMatrix(_, _, _)
StrongPairs_FullMatrix(m, i, threshold) ==
    IF i > Len(m.columns) THEN <<>>
    ELSE PairsOfRow(m, i, 1, threshold) \o StrongPairs_FullMatrix(m, i + 1, threshold)

\* the loops run over the lower triangle: for j in range(i)
RECURSIVE StrongPairs_LowerTriangle(_, _, _)
StrongPairs_LowerTriangle(m, i, threshold) ==
    IF i > Len(m.columns) THEN <<>>
    ELSE SelectSeq(PairsOfRow(m, i, 1, threshold),
                   LAMBDA e : \E j \in 1..(i - 1) : m.columns[j] = e.var2)
         \o StrongPairs_LowerTriangle(m, i + 1, threshold)

\* for i in range(n): for j in range(i+1, n)
RECURSIVE StrongPairs(_, _, _)
StrongPairs(m, i, threshold) ==
    IF i > Len(m.columns) THEN <<>>
    ELSE PairsOfRow(m, i, i + 1, threshold) \o StrongPairs(m, i + 1, threshold)

\* list.sort(key=abs(correlation), reverse=True): stable, so that entries of
\* equal |r| keep the order of the loops
RECURSIVE InsertByAbsDesc(_, _)
InsertByAbsDesc(e, s) ==
    IF s = <<>> THEN <<e>>
    ELSE IF AbsGreater(e.correlation, Head(s).correlation) THEN <<e>> \o s
    ELSE <<Head(s)>> \o InsertByAbsDesc(e, Tail(s))

\* the sort left out
SortByAbsDesc_Unsorted(s) == s

RECURSIVE SortByAbsDesc(_)
SortByAbsDesc(s) ==
    IF s = <<>> THEN <<>>
    ELSE InsertByAbsDesc(s[Len(s)], SortByAbsDesc(SubSeq(s, 1, Len(s) - 1)))

\* s[:n]
\* (a variant that keeps the whole list)
Take_All(s, n) == s

\* s[:n]
Take(s, n) == SubSeq(s, 1, IF Len(s) < n THEN Len(s) ELSE n)

\* InsightGenerator.find_strong_correlations
find_strong_correlations(df, threshold) ==
    LET corr_matrix == get_correlation_matrix(df)
    IN  IF corr_matrix.none THEN Return(<<>>)
        ELSE Return(Take(SortByAbsDesc(StrongPairs(corr_matrix, 1, threshold)), TopN))

----------------------------------------------------------------------------
(* The correlation specification: an InsightGenerator over a dataset of up *)
(* to MaxCols columns of three rows, and calls of find_strong_correlations.*)

\* column names, in lexicographic order
Names == <<"A", "B", "C", "D", "E", "F", "G", "H">>

\* var1 < var2 as strings
LexLess(a, b) ==
    (CHOOSE k \in 1..Len(Names) : Names[k] = a) < (CHOOSE k \in 1..Len(Names) : Names[k] = b)

\* the columns a dataset is made of: r between two of them is 1, -1, -1/2,
\* sqrt(3)/2, 0 or NaN (a constant column)
CorrColumns ==
    { [dtype |-> "int64",   vals |-> <<Num(0), Num(0), Num(1)>>],
      [dtype |-> "int64",   vals |-> <<Num(0), Num(1), Num(0)>>],
      [dtype |-> "int64",   vals |-> <<Num(0), Num(1), Num(2)>>],
      [dtype |-> "int64",   vals |-> <<Num(1), Num(1), Num(1)>>],
      [dtype |-> "float64", vals |-> <<Null, Num(0), Num(1)>>],
      [dtype |-> "object",  vals |-> <<<<"x">>, <<"y">>, <<"x">>>>] }

\* the names given to n columns: ascending or descending
NameOrders(n) == { [k \in 1..n |-> Names[k]], [k \in 1..n |-> Names[n + 1 - k]] }

\* the datasets of 1..MaxCols columns
IsCorrDataset(df) ==
    \E n \in 1..MaxCols : \E names \in NameOrders(n) : \E cols \in [1..n -> CorrColumns] :
        df = [k \in 1..n |-> Column(names[k], cols[k].dtype, cols[k].vals)]

\* the thresholds a call is made with: the default, a lower one and zero
Thresholds == {DefaultThreshold, Rat(3, 10), Rat(0, 1)}

InitCorr ==
    /\ IsCorrDataset(data)
    /\ call = NoCall
    /\ ret = Idle
    /\ locals = NoLocals
    /\ rounding = 0
    /\ firstCall = NoFirst
    /\ session = NoSession
    /\ app = NoRun

FindStrongCorrelations(threshold) ==
    /\ call' = Call("find_strong_correlations", "", "", threshold)
    /\ ret' = find_strong_correlations(data, threshold)
    /\ locals' = NoLocals
    /\ UNCHANGED <<data, rounding, firstCall, session, app>>

NextCorr == \E threshold \in Thresholds : FindStrongCorrelations(threshold)

SpecCorr == InitCorr /\ [][NextCorr]_vars

\* The matrix specification: the same datasets, with calls of
\* get_correlation_matrix next to those of find_strong_correlations.
GetCorrelationMatrix ==
    LET m == get_correlation_matrix(data)
    IN  /\ call' = Call("get_correlation_matrix", "", "", Rat(0, 1))
        /\ ret' = IF m.none THEN ReturnNone ELSE Return(m)
        /\ locals' = NoLocals
        /\ UNCHANGED <<data, rounding, firstCall, session, app>>

MatrixThresholds == {DefaultThreshold, Rat(0, 1)}

NextMatrix ==
    \/ GetCorrelationMatrix
    \/ \E threshold \in MatrixThresholds : FindStrongCorrelations(threshold)

SpecMatrix == InitCorr /\ [][NextMatrix]_vars

----------------------------------------------------------------------------
(* The insight aggregator: InsightGenerator.generate_all_insights and the  *)
(* categories it computes. A percentage or ratio is kept exact as          *)
(* num / den, NaN when numpy divides 0 by 0.                               *)

\* num / den as numpy computes it: NaN for 0/0
Ratio(n, d) ==
    IF d = 0 THEN [nan |-> TRUE, num |-> 0, den |-> 1]
    ELSE [nan |-> FALSE, num |-> n, den |-> d]

\* findings[:5]
MaxFindings == 5

\* self.data.isnull().sum().sum()
NullCount(df) ==
    SumSeq([c \in 1..Len(df) |->
               Cardinality({k \in 1..Len(df[c].vals) : IsNull(df[c].vals[k])})])

\* one row of the dataset
Row(df, k) == [c \in 1..Len(df) |-> df[c].vals[k]]

\* self.data.duplicated().sum(): the rows equal to an earlier row
Duplicates(df) ==
    Cardinality({k \in 1..NumRows(df) : \E j \in 1..(k - 1) : Row(df, j) = Row(df, k)})

\* Series.nunique(): the number of distinct non-null values
NUnique(col) == Cardinality({col.vals[k] : k \in 1..Len(col.vals)} \ {Null})

\* len(self.data.select_dtypes(include=['object', 'category']).columns)
CategoricalCount(df) == Cardinality({c \in 1..Len(df) : df[c].dtype \in {"object", "category"}})

Finding(kind, n, m, col) == [kind |-> kind, n |-> n, m |-> m, col |-> col]

\* the findings of the loop over the columns, from column c on; the loop
\* divides nunique() by len(self.data), two Python ints
RECURSIVE ColumnFindings(_, _)
ColumnFindings(df, c) ==
    IF c > Len(df) THEN <<>>
    ELSE LET n == NumRows(df)
             u == NUnique(df[c])
         IN  IF u * 100 > 95 * n /\ df[c].dtype = "object"
             THEN <<Finding("unique identifier", 0, 0, df[c].name)>> \o ColumnFindings(df, c + 1)
             ELSE IF u * 100 < 5 * n /\ n > 100
             THEN <<Finding("low variability", 0, 0, df[c].name)>> \o ColumnFindings(df, c + 1)
             ELSE ColumnFindings(df, c + 1)

\* (a variant where 10% missing is already high)
MissingFinding_HighFromTen(missing) ==
    IF ~missing.nan /\ missing.num >= 10 * missing.den
    THEN <<Finding("High missing data", missing.num, missing.den, "")>>
    ELSE IF ~missing.nan /\ missing.num > 0
    THEN <<Finding("Low missing data", missing.num, missing.den, "")>>
    ELSE <<Finding("Complete dataset", 0, 0, "")>>

\* the finding on missing data, of missing_percent = missing.num / missing.den
MissingFinding(missing) ==
    IF ~missing.nan /\ missing.num > 10 * missing.den
    THEN <<Finding("High missing data", missing.num, missing.den, "")>>
    ELSE IF ~missing.nan /\ missing.num > 0
    THEN <<Finding("Low missing data", missing.num, missing.den, "")>>
    ELSE <<Finding("Complete dataset", 0, 0, "")>>

\* InsightGenerator.generate_key_findings. The missing percentage is a
\* numpy division (NaN for a dataset without cells, and NaN compares False);
\* unique_ratio = nunique() / len(self.data) in the loop over the columns
\* is a division of Python ints, which raises ZeroDivisionError for a
\* dataset that has a column and no row
generate_key_findings(df) ==
    LET n       == NumRows(df)
        missing == Ratio(NullCount(df) * 100, n * Len(df))
        size    == <<Finding("size", n, Len(df), "")>>
        miss    == MissingFinding(missing)
        types   == <<Finding("Data types", Len(SelectNumber(df)), CategoricalCount(df), "")>>
        dups    == IF Duplicates(df) > 0
                   THEN <<Finding("duplicate records", Duplicates(df), n, "")>>
                   ELSE <<>>
    IN  IF n = 0 /\ Len(df) > 0 THEN Raise("ZeroDivisionError")
        ELSE Return(Take(size \o miss \o types \o dups \o ColumnFindings(df, 1), MaxFindings))

\* (a variant that lists every numeric column, flagged or not)
RECURSIVE OutliersFrom_ListsAll(_, _, _)
OutliersFrom_ListsAll(df, cols, c) ==
    IF c > Len(cols) THEN <<>>
    ELSE LET outlier_indices == detect_outliers(df, cols[c].name, "iqr").ret.val
         IN  <<[column |-> cols[c].name, count |-> Len(outlier_indices),
                percentage |-> Ratio(Len(outlier_indices) * 100, NumRows(df))]>>
             \o OutliersFrom_ListsAll(df, cols, c + 1)

\* InsightGenerator.detect_all_outliers
RECURSIVE OutliersFrom(_, _, _)
OutliersFrom(df, cols, c) ==
    IF c > Len(cols) THEN <<>>
    ELSE LET outlier_indices == detect_outliers(df, cols[c].name, "iqr").ret.val
         IN  IF Len(outlier_indices) > 0
             THEN <<[column |-> cols[c].name, count |-> Len(outlier_indices),
                     percentage |-> Ratio(Len(outlier_indices) * 100, NumRows(df))]>>
                  \o OutliersFrom(df, cols, c + 1)
             ELSE OutliersFrom(df, cols, c + 1)

detect_all_outliers(df) == Return(OutliersFrom(df, SelectNumber(df), 1))

\* the cutoff dropped: every result of analyze_trends is reported
RECURSIVE TrendsFrom_NoCutoff(_, _, _)
TrendsFrom_NoCutoff(df, cols, c) ==
    IF c > Len(cols) THEN <<>>
    ELSE LET trend == analyze_trends(df, cols[c].name, 0)
         IN  IF trend.kind = "return"
             THEN <<trend.val>> \o TrendsFrom_NoCutoff(df, cols, c + 1)
             ELSE TrendsFrom_NoCutoff(df, cols, c + 1)

\* InsightGenerator.analyze_all_trends: the trends with abs(slope) > 0.001.
\* A rounding residue lies far below the cutoff, so a trend whose exact
\* slope is 0 is dropped whatever its residue and the residue is left out
RECURSIVE TrendsFrom(_, _, _)
TrendsFrom(df, cols, c) ==
    IF c > Len(cols) THEN <<>>
    ELSE LET trend == analyze_trends(df, cols[c].name, 0)
         IN  IF trend.kind = "return" /\ Abs(trend.val.slope.num) * 1000 > trend.val.slope.den
             THEN <<trend.val>> \o TrendsFrom(df, cols, c + 1)
             ELSE TrendsFrom(df, cols, c + 1)

analyze_all_trends(df) == Return(TrendsFrom(df, SelectNumber(df), 1))

Recommendation(kind, n, col) == [kind |-> kind, n |-> n, col |-> col]

\* the comparison made inclusive: len(outliers) >= len(self.data) * 0.05
RECURSIVE OutlierRecommendations_AtLeast(_, _, _)
OutlierRecommendations_AtLeast(df, cols, c) ==
    IF c > Len(cols) THEN <<>>
    ELSE IF Len(detect_outliers(df, cols[c].name, "iqr").ret.val) * 100 >= 5 * NumRows(df)
         THEN <<Recommendation("Investigate outliers", 0, cols[c].name)>>
              \o OutlierRecommendations_AtLeast(df, cols, c + 1)
         ELSE OutlierRecommendations_AtLeast(df, cols, c + 1)

\* the loop of get_data_quality_summary over the numeric columns:
\* len(outliers) > len(self.data) * 0.05
RECURSIVE OutlierRecommendations(_, _, _)
OutlierRecommendations(df, cols, c) ==
    IF c > Len(cols) THEN <<>>
    ELSE IF Len(detect_outliers(df, cols[c].name, "iqr").ret.val) * 100 > 5 * NumRows(df)
         THEN <<Recommendation("Investigate outliers", 0, cols[c].name)>>
              \o OutlierRecommendations(df, cols, c + 1)
         ELSE OutlierRecommendations(df, cols, c + 1)

\* DataProcessor.get_data_quality_summary
get_data_quality_summary(df) ==
    LET total_cells   == NumRows(df) * Len(df)
        missing_cells == NullCount(df)
        completeness  == Ratio((total_cells - missing_cells) * 100, total_cells)
        duplicates    == Duplicates(df)
    IN  Return([completeness |-> completeness,
                duplicates |-> duplicates,
                recommendations |->
                    (IF ~completeness.nan /\ completeness.num < 95 * completeness.den
                     THEN <<Recommendation("Consider handling missing values", 0, "")>>
                     ELSE <<>>)
                    \o (IF duplicates > 0
                        THEN <<Recommendation("Remove duplicate rows", duplicates, "")>>
                        ELSE <<>>)
                    \o OutlierRecommendations(df, SelectNumber(df), 1)])

\* InsightGenerator.analyze_distributions: one entry per numeric column
\* with a non-null value, with its mean as sum / count; the median, std,
\* skewness and kurtosis of the entry and their wording are not carried
RECURSIVE DistributionsFrom(_, _)
DistributionsFrom(cols, c) ==
    IF c > Len(cols) THEN <<>>
    ELSE LET col_data == DropNa(cols[c].vals)
         IN  IF Len(col_data) = 0 THEN DistributionsFrom(cols, c + 1)
             ELSE <<[column |-> cols[c].name,
                     mean |-> Ratio(SumSeq(Values(col_data)), Len(col_data))]>>
                  \o DistributionsFrom(cols, c + 1)

analyze_distributions(df) == Return(DistributionsFrom(SelectNumber(df), 1))

\* the categories of generate_all_insights, in the order it computes them
Categories ==
    <<"key_findings", "correlations", "outliers", "trends", "data_quality", "distributions">>

\* the computation of one category
Compute(df, category) ==
    CASE category = "key_findings"  -> generate_key_findings(df)
      [] category = "correlations"  -> find_strong_correlations(df, DefaultThreshold)
      [] category = "outliers"      -> detect_all_outliers(df)
      [] category = "trends"        -> analyze_all_trends(df)
      [] category = "data_quality"  -> get_data_quality_summary(df)
      [] category = "distributions" -> analyze_distributions(df)

\* InsightGenerator.generate_all_insights: the categories are computed one
\* after the other with no exception handler, so the first that raises
\* ends the call and the insights dict is lost
generate_all_insights(df) ==
    IF \E k \in 1..Len(Categories) : Compute(df, Categories[k]).kind = "raise"
    THEN Compute(df, Categories[CHOOSE k \in 1..Len(Categories) :
                        /\ Compute(df, Categories[k]).kind = "raise"
                        /\ \A j \in 1..(k - 1) : Compute(df, Categories[j]).kind # "raise"])
    ELSE Return([c \in {Categories[k] : k \in 1..Len(Categories)} |-> Compute(df, c).val])

----------------------------------------------------------------------------
(* The insights specification: an InsightGenerator over a dataset of one   *)
(* or two columns of up to MaxInsightRows rows; a file with a header and   *)
(* no rows loads as a dataset of object columns without rows.              *)

InsightNumCells == {Null, Num(1), Num(2)}

InsightStrCells == {Null, <<"x">>, <<"y">>}

\* the widths of the datasets
InsightWidths == {1, 2}

InsightColumns(n) ==
    { [dtype |-> "object", vals |-> v] : v \in [1..n -> InsightStrCells] }
    \cup (IF n = 0 THEN {}
          ELSE { [dtype |-> NumDtype(v), vals |-> v] : v \in [1..n -> InsightNumCells] })

IsInsightDataset(df) ==
    \E w \in InsightWidths : \E n \in 0..MaxInsightRows :
        \E cols \in [1..w -> InsightColumns(n)] :
            df = [k \in 1..w |-> Column(Names[k], cols[k].dtype, cols[k].vals)]

InitInsights ==
    /\ IsInsightDataset(data)
    /\ call = NoCall
    /\ ret = Idle
    /\ locals = NoLocals
    /\ rounding = 0
    /\ firstCall = NoFirst
    /\ session = NoSession
    /\ app = NoRun

GenerateAllInsights ==
    /\ call' = Call("generate_all_insights", "", "", Rat(0, 1))
    /\ ret' = generate_all_insights(data)
    /\ locals' = NoLocals
    /\ UNCHANGED <<data, rounding, firstCall, session, app>>

NextInsights == GenerateAllInsights

SpecInsights == InitInsights /\ [][NextInsights]_vars

----------------------------------------------------------------------------
(* Column profiles: DataProcessor.get_column_info.                         *)

\* f"{x:.1f}%" of x = n / d * 100: the percentage rounded to one decimal, as
\* a number of tenths (a tie goes to the even digit: the ties that occur, at
\* 16 rows, are exact in binary), and "nan%" for the numpy quotient 0/0
FormatPercent(n, d) ==
    IF d = 0 THEN [nan |-> TRUE, tenths |-> 0]
    ELSE LET q == (1000 * n) \div d
             r == (1000 * n) % d
         IN  [nan |-> FALSE,
              tenths |-> IF 2 * r > d \/ (2 * r = d /\ q % 2 = 1) THEN q + 1 ELSE q]

\* the distinct values ordered by their last occurrence
RECURSIVE Unique_LastOccurrence(_)
Unique_LastOccurrence(values) ==
    IF values = <<>> THEN <<>>
    ELSE IF \E k \in 2..Len(values) : values[k] = Head(values)
         THEN Unique_LastOccurrence(Tail(values))
         ELSE <<Head(values)>> \o Unique_LastOccurrence(Tail(values))

\* Series.unique(): the distinct values in order of first appearance
RECURSIVE Unique(_)
Unique(values) ==
    IF values = <<>> THEN <<>>
    ELSE LET rest == Unique(SubSeq(values, 1, Len(values) - 1))
             last == values[Len(values)]
         IN  IF \E k \in 1..Len(rest) : rest[k] = last THEN rest ELSE Append(rest, last)

\* the number of sample values: unique()[:3]
MaxSamples == 3

\* the profile of one column; the sample values are kept as the list that
\* ', '.join(str(x) ..) writes out
ColumnProfile(col_data) ==
    LET nulls == Cardinality({k \in 1..Len(col_data.vals) : IsNull(col_data.vals[k])})
    IN  [Column   |-> col_data.name,
         Type     |-> col_data.dtype,
         NonNull  |-> Len(DropNa(col_data.vals)),
         Null     |-> nulls,
         NullPct  |-> FormatPercent(nulls, Len(col_data.vals)),
         Unique   |-> NUnique(col_data),
         Sample   |-> Take(Unique(Values(DropNa(col_data.vals))), MaxSamples)]

\* DataProcessor.get_column_info: one profile per column, in column order
get_column_info(df) == Return([c \in 1..Len(df) |-> ColumnProfile(df[c])])

----------------------------------------------------------------------------
(* The processor specification: a DataProcessor and an InsightGenerator    *)
(* over the datasets of the insights specification, over one long numeric  *)
(* column, and over the worked example of the quality summary; calls of    *)
(* get_column_info, get_data_quality_summary and analyze_all_trends.       *)

\* the longest column of the long datasets: 5% of 20 rows is one row, and
\* the slope of a single step in 20 rows lies below 0.001
MaxLongRows == 20

\* the most leading nulls of a long column
MaxLongNulls == 2

LongShapes == {"flat", "ramp"}

\* the values a single cell of a long column is replaced by
LongSteps == {2, 100}

\* a column of n rows: m leading nulls, then the constant 1 (flat) or the
\* row number (ramp), with the cell of row p, if any, replaced by v
LongColumn(n, shape, m, p, v) ==
    [k \in 1..n |->
        IF k <= m THEN Null
        ELSE IF k = p THEN Num(v)
        ELSE IF shape = "flat" THEN Num(1) ELSE Num(k)]

IsLongDataset(df) ==
    \E n \in 1..MaxLongRows : \E shape \in LongShapes : \E m \in 0..MaxLongNulls :
        \E p \in 0..n : \E v \in LongSteps :
            LET vals == LongColumn(n, shape, m, p, v)
            IN  df = <<Column("A", NumDtype(vals), vals)>>

ExampleNames == <<"A", "B", "C", "D", "E", "F", "G", "H", "I", "J">>

\* the worked example of the specification: 10 rows and 10 columns (100
\* cells), 5 nulls (row 3 of the first five columns) and 2 duplicate rows
\* (rows 9 and 10 repeat rows 1 and 2)
ExampleQuality ==
    [c \in 1..10 |->
        LET vals == [r \in 1..10 |->
                        IF r = 3 /\ c <= 5 THEN Null
                        ELSE Num(10 * (IF r > 8 THEN r - 8 ELSE r) + c)]
        IN  Column(ExampleNames[c], NumDtype(vals), vals)]

InitProcessor ==
    /\ \/ IsInsightDataset(data)
       \/ IsLongDataset(data)
       \/ data = ExampleQuality
    /\ call = NoCall
    /\ ret = Idle
    /\ locals = NoLocals
    /\ rounding = 0
    /\ firstCall = NoFirst
    /\ session = NoSession
    /\ app = NoRun

GetColumnInfo ==
    /\ call' = Call("get_column_info", "", "", Rat(0, 1))
    /\ ret' = get_column_info(data)
    /\ locals' = NoLocals
    /\ UNCHANGED <<data, rounding, firstCall, session, app>>

GetDataQualitySummary ==
    /\ call' = Call("get_data_quality_summary", "", "", Rat(0, 1))
    /\ ret' = get_data_quality_summary(data)
    /\ locals' = NoLocals
    /\ UNCHANGED <<data, rounding, firstCall, session, app>>

AnalyzeAllTrends ==
    /\ call' = Call("analyze_all_trends", "", "", Rat(0, 1))
    /\ ret' = analyze_all_trends(data)
    /\ locals' = NoLocals
    /\ UNCHANGED <<data, rounding, firstCall, session, app>>

NextProcessor ==
    \/ GetColumnInfo
    \/ GetDataQualitySummary
    \/ AnalyzeAllTrends

SpecProcessor == InitProcessor /\ [][NextProcessor]_vars

----------------------------------------------------------------------------
(* The report specification: an InsightGenerator over the datasets of the  *)
(* insights specification, over one long numeric column, over datasets of  *)
(* three text columns and over a dataset of more than 100 rows; calls of   *)
(* generate_key_findings and generate_all_insights.                        *)

\* the most rows of a dataset of three text columns
MaxWideRows == 2

\* the width of those datasets: with the three findings that are always
\* made, three columns can make six findings
WideWidth == 3

IsWideDataset(df) ==
    \E n \in 1..MaxWideRows : \E cols \in [1..WideWidth -> [1..n -> InsightStrCells]] :
        df = [k \in 1..WideWidth |-> Column(Names[k], "object", cols[k])]

\* the rows of the dataset of low variability: more than 100
LowVariabilityRows == 101

\* two numeric columns of one value each over 101 rows: every row but the
\* first is a duplicate and both columns have less than 5% unique values
ExampleLowVariability ==
    [c \in 1..2 |-> Column(Names[c], "int64", [r \in 1..LowVariabilityRows |-> Num(c)])]

InitReport ==
    /\ \/ IsInsightDataset(data)
       \/ IsLongDataset(data)
       \/ IsWideDataset(data)
       \/ data = ExampleLowVariability
    /\ call = NoCall
    /\ ret = Idle
    /\ locals = NoLocals
    /\ rounding = 0
    /\ firstCall = NoFirst
    /\ session = NoSession
    /\ app = NoRun

GenerateKeyFindings ==
    /\ call' = Call("generate_key_findings", "", "", Rat(0, 1))
    /\ ret' = generate_key_findings(data)
    /\ locals' = NoLocals
    /\ UNCHANGED <<data, rounding, firstCall, session, app>>

NextReport ==
    \/ GenerateKeyFindings
    \/ GenerateAllInsights

SpecReport == InitReport /\ [][NextReport]_vars

----------------------------------------------------------------------------
(* The purity specification: one DataProcessor and one InsightGenerator    *)
(* over the same dataset, and calls of their operations in any order. The  *)
(* objects hold the dataset and nothing else (self.data, and the           *)
(* generator's own DataProcessor over it).                                 *)

\* the datasets: the example column; two numeric columns, one with a null;
\* a text column beside a constant one; a file with a header and no rows
PureDatasets ==
    { <<Column("A", "int64", ExampleColumn)>>,
      <<Column("A", "float64", <<Num(1), Num(2), Null, Num(4)>>),
        Column("B", "int64", <<Num(2), Num(4), Num(6), Num(9)>>)>>,
      <<Column("A", "object", <<<<"x">>, <<"y">>, <<"x">>>>),
        Column("B", "int64", <<Num(1), Num(1), Num(1)>>)>>,
      <<Column("A", "object", <<>>)>> }

\* the column names a call is made with: "C" is no column of any dataset
PureColumnArgs == {"A", "B", "C"}

InitPure ==
    /\ data \in PureDatasets
    /\ call = NoCall
    /\ ret = Idle
    /\ locals = NoLocals
    /\ rounding \in Residues
    /\ firstCall = NoFirst
    /\ session = NoSession
    /\ app = NoRun

\* (a variant where the call drops the last row of the dataset in place)
Invoke_DropsRow(c, r) ==
    /\ call' = c
    /\ ret' = r
    /\ locals' = NoLocals
    /\ firstCall' = IF ~firstCall.made THEN [made |-> TRUE, call |-> c, ret |-> r, others |-> FALSE]
                ELSE [firstCall EXCEPT !.others = @ \/ c # firstCall.call]
    /\ data' = [k \in 1..Len(data) |->
                  Column(data[k].name, data[k].dtype,
                         SubSeq(data[k].vals, 1, Len(data[k].vals) - 1))]
    /\ UNCHANGED <<rounding, session, app>>

\* a call c that gives r: no operation assigns self.data or changes the
\* frame in place (dropna, select_dtypes, corr, isnull, duplicated and the
\* rest return new objects), so the dataset is left as it is
Invoke(c, r) ==
    /\ call' = c
    /\ ret' = r
    /\ locals' = NoLocals
    /\ firstCall' = IF ~firstCall.made THEN [made |-> TRUE, call |-> c, ret |-> r, others |-> FALSE]
                ELSE [firstCall EXCEPT !.others = @ \/ c # firstCall.call]
    /\ UNCHANGED <<data, rounding, session, app>>

PureGetColumnInfo ==
    Invoke(Call("get_column_info", "", "", Rat(0, 1)), get_column_info(data))

PureDetectOutliers(column, method) ==
    Invoke(Call("detect_outliers", column, method, Rat(0, 1)),
           detect_outliers(data, column, method).ret)

PureGetCorrelationMatrix ==
    Invoke(Call("get_correlation_matrix", "", "", Rat(0, 1)),
           IF get_correlation_matrix(data).none THEN ReturnNone
           ELSE Return(get_correlation_matrix(data)))

PureGetDataQualitySummary ==
    Invoke(Call("get_data_quality_summary", "", "", Rat(0, 1)),
           get_data_quality_summary(data))

PureAnalyzeTrends(column) ==
    Invoke(Call("analyze_trends", column, "", Rat(0, 1)),
           analyze_trends(data, column, rounding))

PureGenerateAllInsights ==
    Invoke(Call("generate_all_insights", "", "", Rat(0, 1)), generate_all_insights(data))

\* a part of generate_all_insights, called by itself
PureCategory(category) ==
    Invoke(Call(category, "", "", Rat(0, 1)), Compute(data, category))

NextPure ==
    \/ PureGetColumnInfo
    \/ \E column \in PureColumnArgs, method \in Methods : PureDetectOutliers(column, method)
    \/ PureGetCorrelationMatrix
    \/ PureGetDataQualitySummary
    \/ \E column \in PureColumnArgs : PureAnalyzeTrends(column)
    \/ PureGenerateAllInsights
    \/ \E k \in 1..Len(Categories) : PureCategory(Categories[k])

SpecPure == InitPure /\ [][NextPure]_vars

----------------------------------------------------------------------------
(* The app specification: one browser session of app.py. Streamlit runs    *)
(* main from the top on every interaction with a widget; st.session_state  *)
(* lasts over the runs; st.file_uploader returns the file it holds in      *)
(* every run until the user replaces or removes it; st.button returns True *)
(* only in the run its press started. A run is taken section by section    *)
(* (app.pc is the part of main that comes next), and an interaction during *)
(* a run ends that run where it stands and starts the next one.            *)

\* the files a user may choose: a CSV that loads, a CSV with a header and
\* no rows (it loads as a text column without rows), and a file that
\* pd.read_excel cannot read
CsvFile ==
    [name |-> "data.csv", ok |-> TRUE,
     df |-> <<Column("A", "int64", <<Num(1), Num(2), Num(4)>>)>>]

HeaderOnlyFile ==
    [name |-> "empty.csv", ok |-> TRUE, df |-> <<Column("A", "object", <<>>)>>]

BrokenFile == [name |-> "broken.xlsx", ok |-> FALSE, df |-> <<>>]

Files == {CsvFile, HeaderOnlyFile, BrokenFile}

\* pd.read_csv(uploaded_file) / pd.read_excel(uploaded_file)
ReadFile(f) == IF f.ok THEN Return(f.df) ELSE Raise("Exception")

\* generate_sample_sales_data(): seeded, so one fixed dataset; here the
\* first rows of its columns Sales and Region, in whole numbers
generate_sample_sales_data ==
    <<Column("Sales", "int64", <<Num(10), Num(9), Num(11), Num(13)>>),
      Column("Region", "object", <<<<"North">>, <<"South">>, <<"North">>, <<"East">>>>)>>

\* generate_sample_customer_data(): seeded as well; here the first rows of
\* its columns Customer_ID, Age and Gender
generate_sample_customer_data ==
    <<Column("Customer_ID", "int64", <<Num(1), Num(2), Num(3), Num(4), Num(5)>>),
      Column("Age", "int64", <<Num(47), Num(37), Num(49), Num(62), Num(36)>>),
      Column("Gender", "object",
             <<<<"Male">>, <<"Female">>, <<"Male">>, <<"Male">>, <<"Female">>>>)>>

\* (a variant that leaves the insights of the dataset before in place)
Loaded_KeepsInsights(sess, df) ==
    [data |-> Some(df), processor |-> Some([data |-> df]), insights |-> sess.insights]

\* (a variant that leaves the processor of the dataset before in place)
Loaded_KeepsProcessor(sess, df) ==
    [data |-> Some(df), processor |-> sess.processor, insights |-> None]

\* st.session_state.data = data; st.session_state.processor =
\* DataProcessor(data); st.session_state.insights = None
Loaded(sess, df) ==
    [data |-> Some(df), processor |-> Some([data |-> df]), insights |-> None]

\* (a variant that clears the session before it reads the file)
upload_section_ClearsFirst(sess, uploaded_file, pressed) ==
    LET read == IF uploaded_file.none THEN ReturnNone ELSE ReadFile(uploaded_file.val)
        s1   == IF uploaded_file.none THEN sess
                ELSE IF read.kind = "return" THEN Loaded(sess, read.val)
                ELSE NoSession
        s2   == IF pressed = "Sales Data" THEN Loaded(s1, generate_sample_sales_data) ELSE s1
        s3   == IF pressed = "Customer Data"
                THEN Loaded(s2, generate_sample_customer_data) ELSE s2
    IN  [session |-> s3,
         error   |-> read.kind = "raise",
         reads   |-> IF uploaded_file.none THEN 0 ELSE 1]

\* upload_section: the session after it, whether st.error was shown, and
\* the number of times the file was read. The file the uploader holds is
\* read whenever there is one; the session is assigned after the read, so a
\* read that raises goes to the handler with the session as it was; the two
\* sample buttons come after, whatever the read did
upload_section(sess, uploaded_file, pressed) ==
    LET read == IF uploaded_file.none THEN ReturnNone ELSE ReadFile(uploaded_file.val)
        s1   == IF read.kind = "return" THEN Loaded(sess, read.val) ELSE sess
        s2   == IF pressed = "Sales Data" THEN Loaded(s1, generate_sample_sales_data) ELSE s1
        s3   == IF pressed = "Customer Data"
                THEN Loaded(s2, generate_sample_customer_data) ELSE s2
    IN  [session |-> s3,
         error   |-> read.kind = "raise",
         reads   |-> IF uploaded_file.none THEN 0 ELSE 1]

\* a run of main about to begin, started by an interaction with widget
\* pressed ("" for the first run, when the page is opened); ran lists the
\* sections executed so far with the dataset each found in the session
Run(uploaded_file, pressed) ==
    [pc |-> "upload", uploaded_file |-> uploaded_file, pressed |-> pressed,
     ran |-> <<>>, error |-> FALSE, reads |-> 0, raised |-> FALSE]

\* the page is opened: main has initialised the session state and the
\* uploader is empty
InitApp ==
    /\ data = <<>>
    /\ call = NoCall
    /\ ret = Idle
    /\ locals = NoLocals
    /\ rounding = 0
    /\ firstCall = NoFirst
    /\ session = NoSession
    /\ app = Run(None, "")

\* the user chooses a file in the uploader
ChooseFile(f) ==
    /\ app' = Run(Some(f), "file_uploader")
    /\ UNCHANGED <<data, call, ret, locals, rounding, firstCall, session>>

\* the user removes the file from the uploader
ClearFile ==
    /\ ~app.uploaded_file.none
    /\ app' = Run(None, "file_uploader (cleared)")
    /\ UNCHANGED <<data, call, ret, locals, rounding, firstCall, session>>

\* the user presses one of the sample-data buttons
PressSample(button) ==
    /\ app' = Run(app.uploaded_file, button)
    /\ UNCHANGED <<data, call, ret, locals, rounding, firstCall, session>>

\* the user presses 'Generate Insights', which is on the page when there is
\* a dataset
PressGenerate ==
    /\ ~session.data.none
    /\ app' = Run(app.uploaded_file, "Generate Insights")
    /\ UNCHANGED <<data, call, ret, locals, rounding, firstCall, session>>

\* the user changes another widget (a selector of the charts section)
ChangeWidget ==
    /\ ~session.data.none
    /\ app' = Run(app.uploaded_file, "selectbox")
    /\ UNCHANGED <<data, call, ret, locals, rounding, firstCall, session>>

\* main, tab1: upload_section()
UploadSection ==
    /\ app.pc = "upload"
    /\ LET r == upload_section(session, app.uploaded_file, app.pressed)
       IN  /\ session' = r.session
           /\ app' = [app EXCEPT !.pc = "overview",
                                 !.ran = @ \o <<[section |-> "upload", data |-> r.session.data]>>,
                                 !.error = r.error,
                                 !.reads = r.reads]
    /\ UNCHANGED <<data, call, ret, locals, rounding, firstCall>>

\* (a variant that runs the overview section without the test)
OverviewSection_Unguarded ==
    /\ app.pc = "overview"
    /\ app' = [app EXCEPT !.pc = "insights",
                          !.ran = @ \o <<[section |-> "overview", data |-> session.data]>>]
    /\ UNCHANGED <<data, call, ret, locals, rounding, firstCall, session>>

\* main, tab2: overview_section() if there is a dataset, a notice if not
OverviewSection ==
    /\ app.pc = "overview"
    /\ app' = [app EXCEPT !.pc = "insights",
                          !.ran = IF session.data.none THEN @
                                  ELSE @ \o <<[section |-> "overview", data |-> session.data]>>]
    /\ UNCHANGED <<data, call, ret, locals, rounding, firstCall, session>>

\* main, tab3: insights_section() if there is a dataset. With the button
\* pressed it computes the insights of the session's dataset and stores
\* them; an exception of generate_all_insights is caught nowhere and ends
\* the run
InsightsSection ==
    /\ app.pc = "insights"
    /\ IF session.data.none
       THEN /\ app' = [app EXCEPT !.pc = "charts"]
            /\ UNCHANGED session
       ELSE LET insights == generate_all_insights(session.data.val)
                here == app.ran \o <<[section |-> "insights", data |-> session.data]>>
            IN  IF app.pressed # "Generate Insights"
                THEN /\ app' = [app EXCEPT !.pc = "charts", !.ran = here]
                     /\ UNCHANGED session
                ELSE IF insights.kind = "raise"
                THEN /\ app' = [app EXCEPT !.pc = "idle", !.ran = here, !.raised = TRUE]
                     /\ UNCHANGED session
                ELSE /\ app' = [app EXCEPT !.pc = "charts", !.ran = here]
                     /\ session' = [session EXCEPT !.insights = Some(insights.val)]
    /\ UNCHANGED <<data, call, ret, locals, rounding, firstCall>>

\* main, tab4: charts_section() if there is a dataset; the run ends
ChartsSection ==
    /\ app.pc = "charts"
    /\ app' = [app EXCEPT !.pc = "idle",
                          !.ran = IF session.data.none THEN @
                                  ELSE @ \o <<[section |-> "charts", data |-> session.data]>>]
    /\ UNCHANGED <<data, call, ret, locals, rounding, firstCall, session>>

SampleButtons == {"Sales Data", "Customer Data"}

NextApp ==
    \/ \E f \in Files : ChooseFile(f)
    \/ ClearFile
    \/ \E button \in SampleButtons : PressSample(button)
    \/ PressGenerate
    \/ ChangeWidget
    \/ UploadSection
    \/ OverviewSection
    \/ InsightsSection
    \/ ChartsSection

SpecApp == InitApp /\ [][NextApp]_vars

----------------------------------------------------------------------------
(* Properties of detect_outliers and analyze_trends (column specification) *)

\* the call just made was op on a column the dataset has
CalledOn(op) == call.op = op /\ HasColumn(data, call.column)

CalledColumn == GetColumn(data, call.column)

\* the non-null values of the called column, by row index
NonNullRows == {k \in 1..Len(CalledColumn.vals) : ~IsNull(CalledColumn.vals[k])}

NumericCall(op) == CalledOn(op) /\ CalledColumn.dtype \in {"int64", "float64"}

\* the j-th smallest (j = 0, 1, ..) of the non-null values, stated by rank
\* instead of by sorting
OrderStat(j) ==
    LET V(k) == Val(CalledColumn.vals[k])
    IN  V(CHOOSE k \in NonNullRows :
            /\ Cardinality({i \in NonNullRows : V(i) < V(k)}) <= j
            /\ Cardinality({i \in NonNullRows : V(i) <= V(k)}) > j)

\* the quartile k/4 of the non-null values by linear interpolation, times 8
RefQuartile8(k) ==
    LET h  == k * (Cardinality(NonNullRows) - 1)
        lo == h \div 4
        r  == h % 4
    IN  IF r = 0 THEN 8 * OrderStat(lo)
        ELSE 8 * OrderStat(lo) + 2 * r * (OrderStat(lo + 1) - OrderStat(lo))

\* the bounds Q1 - 1.5*IQR and Q3 + 1.5*IQR, times 8
RefBounds8 ==
    LET q1 == RefQuartile8(1)
        q3 == RefQuartile8(3)
    IN  [lower |-> q1 - (3 * (q3 - q1)) \div 2, upper |-> q3 + (3 * (q3 - q1)) \div 2]

\* the row indices (0-based) whose value lies strictly outside the bounds
RefOutlierRows ==
    LET b == RefBounds8
    IN  {k - 1 : k \in {i \in NonNullRows :
                            \/ 8 * Val(CalledColumn.vals[i]) < b.lower
                            \/ 8 * Val(CalledColumn.vals[i]) > b.upper}}

Elems(s) == {s[k] : k \in 1..Len(s)}

\* C1: detect_outliers(column, method='zscore') on a numeric column whose
\* non-null values are all equal returns the empty list: the division by a
\* zero standard deviation neither raises nor flags a row.
C1_ZScoreZeroVarianceEmpty ==
    (/\ NumericCall("detect_outliers")
     /\ call.method = "zscore"
     /\ \A i, j \in NonNullRows : CalledColumn.vals[i] = CalledColumn.vals[j])
    => ret = Return(<<>>)

\* a z-score call on a column of two or more equal values has returned []
C1_Witness ==
    /\ NumericCall("detect_outliers")
    /\ call.method = "zscore"
    /\ Cardinality(NonNullRows) >= 2
    /\ \A i, j \in NonNullRows : CalledColumn.vals[i] = CalledColumn.vals[j]
    /\ ret = Return(<<>>)

\* C2: detect_outliers and analyze_trends called with a name that is no
\* column of the dataset return an empty result ([] and None) and do not
\* raise.
C2_MissingColumnReturnsEmpty ==
    /\ (call.op = "detect_outliers" /\ ~HasColumn(data, call.column))
       => ret = Return(<<>>)
    /\ (call.op = "analyze_trends" /\ ~HasColumn(data, call.column))
       => ret = ReturnNone

C5_IqrFlagsExactlyOutside ==
    (NumericCall("detect_outliers") /\ call.method = "iqr")
    => /\ ret.kind = "return"
       /\ Elems(ret.val) = (IF NonNullRows = {} THEN {} ELSE RefOutlierRows)
       /\ Len(ret.val) = Cardinality(Elems(ret.val))
       /\ \A k \in 1..Len(CalledColumn.vals) :
            IsNull(CalledColumn.vals[k]) => (k - 1) \notin Elems(ret.val)
       /\ CalledColumn.vals = ExampleColumn => ret.val = <<4>>

\* the example: the IQR call on A = [1,2,3,4,100] has returned row 4, with
\* Q1 = 2, Q3 = 4 and the upper bound 7
C5_Witness ==
    /\ NumericCall("detect_outliers")
    /\ call.method = "iqr"
    /\ CalledColumn.vals = ExampleColumn
    /\ ret = Return(<<4>>)
    /\ locals.Q1 = Fl(16) /\ locals.Q3 = Fl(32) /\ locals.upper_bound = Fl(56)

\* C21: every row index detect_outliers returns, by either method, is the
\* index of a row of the dataset whose value in the column is not null, and
\* the indices returned are no more than the non-null values of the column.
C21_OutliersAreNonNullRows ==
    (CalledOn("detect_outliers") /\ ret.kind = "return")
    => /\ \A i \in 1..Len(ret.val) : (ret.val[i] + 1) \in NonNullRows
       /\ Len(ret.val) <= Cardinality(NonNullRows)

\* a value after a gap was flagged: the call on the gapped column, by the IQR
\* or the z-score method, has returned row 11, the one after the null
C21_Witness ==
    /\ CalledOn("detect_outliers")
    /\ CalledColumn.vals = ExampleGappedColumn
    /\ call.method = "zscore"
    /\ ret = Return(<<11>>)

\* C6: for a column that is not numeric (a text column) detect_outliers
\* returns [] for every method and analyze_trends returns None; neither raises.
C6_NonNumericEmpty ==
    /\ (CalledOn("detect_outliers") /\ CalledColumn.dtype = "object")
       => ret = Return(<<>>)
    /\ (CalledOn("analyze_trends") /\ CalledColumn.dtype = "object")
       => ret = ReturnNone

\* analyze_trends has returned None for a text column of three or more
\* non-null values
C6_Witness ==
    /\ CalledOn("analyze_trends")
    /\ CalledColumn.dtype = "object"
    /\ Cardinality(NonNullRows) >= 3
    /\ ret = ReturnNone

\* the non-null values of the called column rise (dir = 1) or fall
\* (dir = -1) strictly along the rows
StrictlyMonotonic(dir) ==
    \A i, j \in NonNullRows :
       i < j => dir * Val(CalledColumn.vals[i]) < dir * Val(CalledColumn.vals[j])

\* last_value - first_value of the non-null values of the called column
LastMinusFirst ==
    LET first == CHOOSE i \in NonNullRows : \A j \in NonNullRows : i <= j
        last  == CHOOSE i \in NonNullRows : \A j \in NonNullRows : j <= i
    IN  Val(CalledColumn.vals[last]) - Val(CalledColumn.vals[first])

Sign(x) == IF x > 0 THEN 1 ELSE IF x < 0 THEN -1 ELSE 0

C16_SlopeSignOfMonotonic ==
    (/\ NumericCall("analyze_trends")
     /\ Cardinality(NonNullRows) >= 3
     /\ StrictlyMonotonic(1) \/ StrictlyMonotonic(-1))
    => /\ ret.kind = "return"
       /\ LastMinusFirst # 0
       /\ Sign(ret.val.slope.num) = Sign(LastMinusFirst)
       /\ ret.val.slope.den > 0
       /\ StrictlyMonotonic(1) => ret.val.slope.num > 0
       /\ StrictlyMonotonic(-1) => ret.val.slope.num < 0

\* a strictly decreasing column with a null in it has a negative slope
C16_Witness ==
    /\ NumericCall("analyze_trends")
    /\ Cardinality(NonNullRows) >= 3
    /\ Cardinality(NonNullRows) < Len(CalledColumn.vals)
    /\ StrictlyMonotonic(-1)
    /\ ret.kind = "return"
    /\ ret.val.slope.num < 0

\* C17: the description of analyze_trends is an 'Increasing trend' text
\* exactly when slope > 0, a 'Decreasing trend' text exactly when slope < 0
\* and 'No clear trend' exactly when slope == 0, one of the three for every
\* result; and a constant column of 3 or more values is classified
\* 'No clear trend'.
C17_DescriptionOfSlope ==
    (NumericCall("analyze_trends") /\ ret.kind = "return")
    => /\ ret.val.description \in {"Increasing trend", "Decreasing trend", "No clear trend"}
       /\ ret.val.description = "Increasing trend" <=> SlopeSign(ret.val.slope) > 0
       /\ ret.val.description = "Decreasing trend" <=> SlopeSign(ret.val.slope) < 0
       /\ ret.val.description = "No clear trend" <=> SlopeSign(ret.val.slope) = 0
       /\ (\A i, j \in NonNullRows : CalledColumn.vals[i] = CalledColumn.vals[j])
          => ret.val.description = "No clear trend"

----------------------------------------------------------------------------
(* Properties of find_strong_correlations (correlation specification)      *)

CalledCorr == call.op = "find_strong_correlations"

\* the numeric columns of the dataset
NumericCols == SelectNumber(data)

\* the position of a name among the numeric columns (0 when it is none)
NumericPos(name) ==
    LET cols == NumericCols
    IN  IF \E k \in 1..Len(cols) : cols[k].name = name
        THEN CHOOSE k \in 1..Len(cols) : cols[k].name = name
        ELSE 0

\* r of the numeric columns at positions i and j
RefR(i, j) == Pearson(NumericCols[i].vals, NumericCols[j].vals)

\* the unordered pairs {i, j}, i < j, of numeric columns with |r| >= threshold
Qualifying ==
    LET cols == NumericCols
    IN  { p \in (1..Len(cols)) \X (1..Len(cols)) :
            /\ p[1] < p[2]
            /\ AbsAtLeast(Pearson(cols[p[1]].vals, cols[p[2]].vals), call.threshold) }

\* the pair of positions an emitted entry names
PosPair(e) ==
    LET cols == NumericCols
        Pos(name) == IF \E k \in 1..Len(cols) : cols[k].name = name
                     THEN CHOOSE k \in 1..Len(cols) : cols[k].name = name
                     ELSE 0
    IN  <<Pos(e.var1), Pos(e.var2)>>

Min(a, b) == IF a < b THEN a ELSE b

\* r = 1
IsOne(r) == ~r.nan /\ r.num > 0 /\ r.num * r.num = r.den

\* the pairs of positions the emitted entries name, in order
EmittedPos ==
    LET cols == NumericCols
        Pos(name) == IF \E k \in 1..Len(cols) : cols[k].name = name
                     THEN CHOOSE k \in 1..Len(cols) : cols[k].name = name
                     ELSE 0
        pairs == [k \in 1..Len(ret.val) |-> <<Pos(ret.val[k].var1), Pos(ret.val[k].var2)>>]
    IN  IF ret.val = <<>> THEN <<>> ELSE [k \in 1..Len(ret.val) |-> pairs[k]]

\* C7 (as claimed): no pair (X,X) is emitted, no unordered pair is emitted
\* twice, and two identical numeric columns X = Y always yield exactly one
\* emitted pair, with correlation 1.
C7_IdenticalColumnsAlwaysOnePair ==
    CalledCorr =>
       LET pos == EmittedPos
       IN  /\ \A k \in 1..Len(ret.val) : ret.val[k].var1 # ret.val[k].var2
           /\ \A k, l \in 1..Len(ret.val) :
                k # l => {ret.val[k].var1, ret.val[k].var2} # {ret.val[l].var1, ret.val[l].var2}
           /\ \A i, j \in 1..Len(NumericCols) :
                (i < j /\ NumericCols[i].vals = NumericCols[j].vals)
                => /\ Cardinality({k \in 1..Len(pos) : pos[k] = <<i, j>>}) = 1
                   /\ \A k \in 1..Len(pos) :
                        pos[k] = <<i, j>> => IsOne(ret.val[k].correlation)

\* C7 (amended): no pair (X,X) is emitted and no unordered pair is emitted
\* twice; two identical numeric columns X = Y that are not constant over
\* their common rows yield at most one emitted pair, with correlation 1,
\* and exactly one when no more than 5 pairs reach the threshold (a
\* threshold of at most 1).
C7_NoSelfNoDuplicatePairs ==
    CalledCorr =>
       LET pos  == EmittedPos
           cols == NumericCols
       IN  /\ ret.kind = "return"
           /\ \A k \in 1..Len(ret.val) : ret.val[k].var1 # ret.val[k].var2
           /\ \A k, l \in 1..Len(ret.val) :
                k # l => {ret.val[k].var1, ret.val[k].var2} # {ret.val[l].var1, ret.val[l].var2}
           /\ \A i, j \in 1..Len(cols) :
                (i < j /\ cols[i].vals = cols[j].vals /\ ~RefR(i, j).nan)
                => /\ Cardinality({k \in 1..Len(pos) : pos[k] = <<i, j>>}) <= 1
                   /\ Cardinality({k \in 1..Len(pos) : pos[k] = <<j, i>>}) = 0
                   /\ \A k \in 1..Len(pos) :
                        pos[k] = <<i, j>> => IsOne(ret.val[k].correlation)
                   /\ Cardinality(Qualifying) <= TopN
                      => \E k \in 1..Len(pos) : pos[k] = <<i, j>>

\* two identical columns are the dataset's numeric columns and the call has
\* emitted the one pair, with correlation 1
C7_Witness ==
    /\ CalledCorr
    /\ call.threshold = DefaultThreshold
    /\ Len(NumericCols) = 2
    /\ NumericCols[1].vals = NumericCols[2].vals
    /\ Len(ret.val) = 1
    /\ ret.val[1].var1 = NumericCols[1].name
    /\ ret.val[1].var2 = NumericCols[2].name
    /\ IsOne(ret.val[1].correlation)

\* C8: find_strong_correlations(threshold) returns the (at most) 5 pairs of
\* largest |r| among the numeric column pairs with |r| >= threshold: every
\* returned pair is such a pair with its r, the list is in non-increasing
\* order of |r|, its length is min(5, number of qualifying pairs), and no
\* omitted qualifying pair has |r| greater than a returned one.
C8_TopFiveByAbs ==
    CalledCorr =>
       LET pos == EmittedPos
           q   == Qualifying
       IN  /\ ret.kind = "return"
           /\ \A k \in 1..Len(ret.val) :
                /\ pos[k] \in q
                /\ ret.val[k].correlation = RefR(pos[k][1], pos[k][2])
                /\ AbsAtLeast(ret.val[k].correlation, call.threshold)
           /\ \A k \in 1..(Len(ret.val) - 1) :
                ~AbsGreater(ret.val[k + 1].correlation, ret.val[k].correlation)
           /\ Len(ret.val) = Min(TopN, Cardinality(q))
           /\ \A p \in q :
                (\A k \in 1..Len(pos) : pos[k] # p)
                => \A k \in 1..Len(ret.val) :
                     ~AbsGreater(RefR(p[1], p[2]), ret.val[k].correlation)

\* more than 5 pairs qualify, of differing |r|, and the 5 returned include
\* the strongest and leave a weaker one out
C8_Witness ==
    /\ CalledCorr
    /\ call.threshold = DefaultThreshold
    /\ Cardinality(Qualifying) > TopN
    /\ Len(ret.val) = TopN
    /\ AbsGreater(ret.val[1].correlation, ret.val[TopN].correlation)
    /\ \E p \in Qualifying :
         /\ \A k \in 1..Len(ret.val) : PosPair(ret.val[k]) # p
         /\ AbsGreater(ret.val[1].correlation, RefR(p[1], p[2]))

\* C9 (as claimed): every emitted pair has var1 < var2 in lexicographic
\* order of the column names, whatever the order of the dataset's columns.
C9_Var1LexBeforeVar2 ==
    CalledCorr => \A k \in 1..Len(ret.val) : LexLess(ret.val[k].var1, ret.val[k].var2)

\* C9 (amended): in every emitted pair var1 is a numeric column that stands
\* before the numeric column var2 in the column order of the dataset.
C9_Var1BeforeVar2InColumnOrder ==
    CalledCorr =>
       \A k \in 1..Len(ret.val) :
          /\ NumericPos(ret.val[k].var1) >= 1
          /\ NumericPos(ret.val[k].var1) < NumericPos(ret.val[k].var2)

\* a pair has been emitted whose var1 follows its var2 lexicographically
C9_Witness ==
    /\ CalledCorr
    /\ \E k \in 1..Len(ret.val) :
         /\ LexLess(ret.val[k].var2, ret.val[k].var1)
         /\ NumericPos(ret.val[k].var1) < NumericPos(ret.val[k].var2)

\* the label says the sign of r
LabelMatchesSign(e) ==
    /\ e.strength \in {"Strong positive", "Strong negative"}
    /\ e.strength = "Strong positive" <=> e.correlation.num > 0
    /\ e.strength = "Strong negative" <=> e.correlation.num < 0

\* C10 (as claimed): for every threshold, every emitted pair is labelled
\* 'Strong positive' exactly when r > 0 and 'Strong negative' exactly when
\* r < 0, and no emitted pair has r = 0.
C10_LabelMatchesSignAnyThreshold ==
    CalledCorr => \A k \in 1..Len(ret.val) : LabelMatchesSign(ret.val[k])

\* C10 (amended): for every positive threshold, every emitted pair is
\* labelled 'Strong positive' exactly when r > 0 and 'Strong negative'
\* exactly when r < 0, and no emitted pair has r = 0; for any threshold
\* 'Strong positive' is given exactly when r > 0.
C10_LabelMatchesSignPositiveThreshold ==
    CalledCorr =>
       /\ call.threshold.num > 0
          => \A k \in 1..Len(ret.val) :
               LabelMatchesSign(ret.val[k]) /\ ret.val[k].correlation.num # 0
       /\ \A k \in 1..Len(ret.val) :
            /\ ret.val[k].strength \in {"Strong positive", "Strong negative"}
            /\ ret.val[k].strength = "Strong positive" <=> ret.val[k].correlation.num > 0

\* a call with the default threshold has emitted a positive and a negative
\* pair, labelled as such
C10_Witness ==
    /\ CalledCorr
    /\ call.threshold = DefaultThreshold
    /\ \E k, l \in 1..Len(ret.val) :
         /\ ret.val[k].correlation.num > 0 /\ ret.val[k].strength = "Strong positive"
         /\ ret.val[l].correlation.num < 0 /\ ret.val[l].strength = "Strong negative"

\* C11: with fewer than 2 numeric columns get_correlation_matrix returns
\* None and find_strong_correlations returns the empty list, without an
\* error; a column that is not numeric is never var1 or var2 of an emitted
\* pair (nor a column of a matrix returned).
C11_FewNumericColumnsEmpty ==
    LET cols == NumericCols
    IN  /\ (call.op = "get_correlation_matrix" /\ Len(cols) < 2) => ret = ReturnNone
        /\ (CalledCorr /\ Len(cols) < 2) => ret = Return(<<>>)
        /\ CalledCorr =>
             \A k \in 1..Len(ret.val) : \A v \in {ret.val[k].var1, ret.val[k].var2} :
                /\ HasColumn(data, v)
                /\ GetColumn(data, v).dtype \in {"int64", "float64"}
        /\ (call.op = "get_correlation_matrix" /\ ret.kind = "return") =>
             \A k \in 1..Len(ret.val.columns) :
                GetColumn(data, ret.val.columns[k]).dtype \in {"int64", "float64"}

\* get_correlation_matrix has returned None for a dataset of one numeric
\* column and a text column
C11_Witness ==
    /\ call.op = "get_correlation_matrix"
    /\ Len(NumericCols) = 1
    /\ Len(data) >= 2
    /\ ret = ReturnNone

----------------------------------------------------------------------------
(* Properties of get_data_quality_summary, analyze_all_trends and          *)
(* get_column_info (processor specification)                               *)

CalledQuality == call.op = "get_data_quality_summary"

\* completeness < 95, of a completeness returned
Below95(completeness) == ~completeness.nan /\ completeness.num < 95 * completeness.den

\* the numeric columns whose IQR outliers number more than 5% of the rows
OutlierColumns ==
    {c \in 1..Len(data) :
        /\ data[c].dtype \in {"int64", "float64"}
        /\ 20 * Len(detect_outliers(data, data[c].name, "iqr").ret.val) > NumRows(data)}

\* C12: for a dataset without a null cell, of any number of rows and
\* columns, get_data_quality_summary returns a completeness of exactly 100.
C12_FullyPopulatedIs100 ==
    (CalledQuality /\ \A c \in 1..Len(data) : \A k \in 1..NumRows(data) : ~IsNull(data[c].vals[k]))
    => /\ ret.kind = "return"
       /\ ~ret.val.completeness.nan
       /\ ret.val.completeness.num = 100 * ret.val.completeness.den

\* C13: for every dataset get_data_quality_summary returns a completeness
\* in [0,100] and a duplicates count >= 0, below the number of rows when the
\* dataset has rows.
C13_QualityInRange ==
    CalledQuality
    => /\ ret.kind = "return"
       /\ ~ret.val.completeness.nan
       /\ ret.val.completeness.den > 0
       /\ 0 <= ret.val.completeness.num
       /\ ret.val.completeness.num <= 100 * ret.val.completeness.den
       /\ ret.val.duplicates >= 0
       /\ NumRows(data) > 0 => ret.val.duplicates < NumRows(data)

\* C14: the recommendations of get_data_quality_summary are those of three
\* rules and nothing else: the missing-values recommendation iff
\* completeness < 95 (none at exactly 95), 'Remove N duplicate rows' iff the
\* duplicate count N > 0, and 'Investigate outliers in c' for a numeric
\* column c iff its IQR outliers number strictly more than 5% of the rows.
C14_RecommendationsByRule ==
    CalledQuality
    => LET recs == ret.val.recommendations
           comp == ret.val.completeness
           N    == ret.val.duplicates
           flagged == OutlierColumns
           Has(r) == \E k \in 1..Len(recs) : recs[k] = r
       IN  /\ ret.kind = "return"
           /\ NumRows(data) > 0 =>
                comp.num * NumRows(data) * Len(data)
                   = comp.den * 100 * (NumRows(data) * Len(data) - NullCount(data))
           /\ Has(Recommendation("Consider handling missing values", 0, "")) <=> Below95(comp)
           /\ (~comp.nan /\ comp.num = 95 * comp.den)
                => ~Has(Recommendation("Consider handling missing values", 0, ""))
           /\ (\E k \in 1..Len(recs) : recs[k].kind = "Remove duplicate rows") <=> N > 0
           /\ \A k \in 1..Len(recs) : recs[k].kind = "Remove duplicate rows" => recs[k].n = N
           /\ \A c \in 1..Len(data) :
                Has(Recommendation("Investigate outliers", 0, data[c].name)) <=> c \in flagged
           /\ Len(recs) = (IF Below95(comp) THEN 1 ELSE 0) + (IF N > 0 THEN 1 ELSE 0)
                             + Cardinality(flagged)
           /\ data = ExampleQuality =>
                /\ comp.num = 95 * comp.den
                /\ N = 2
                /\ recs = <<Recommendation("Remove duplicate rows", 2, "")>>

\* the worked example: 100 cells with 5 nulls and 2 duplicate rows give a
\* completeness of exactly 95 and the duplicates recommendation alone
C14_Witness ==
    /\ CalledQuality
    /\ data = ExampleQuality
    /\ NullCount(data) = 5
    /\ ret.val.completeness.num = 95 * ret.val.completeness.den
    /\ ret.val.recommendations = <<Recommendation("Remove duplicate rows", 2, "")>>

\* the non-null rows of column c
ValueRows(c) == {k \in 1..Len(data[c].vals) : ~IsNull(data[c].vals[k])}

\* twelve times the covariance sum of the fit of column c, in closed form:
\* the sum of (2*x - n + 1) * y over the non-null values y, x the position
\* of y among them; the slope is 6 times this over n*(n^2 - 1)
CenteredSum(c) ==
    LET rows == ValueRows(c)
        n    == Cardinality(rows)
    IN  SumSeq([k \in 1..Len(data[c].vals) |->
                   IF k \in rows
                   THEN (2 * Cardinality({j \in rows : j < k}) - n + 1) * Val(data[c].vals[k])
                   ELSE 0])

\* column c is numeric, has 3 or more values and |slope| > 0.001
Material(c) ==
    LET n == Cardinality(ValueRows(c))
    IN  /\ data[c].dtype \in {"int64", "float64"}
        /\ n >= 3
        /\ 6000 * Abs(CenteredSum(c)) > n * (n * n - 1)

FirstRow(c, v) ==
    CHOOSE k \in ValueRows(c) :
       /\ Val(data[c].vals[k]) = v
       /\ \A j \in ValueRows(c) : Val(data[c].vals[j]) = v => k <= j

\* the distinct non-null values of column c
DistinctValues(c) == {Val(data[c].vals[k]) : k \in ValueRows(c)}

\* what C19 says of every field of a profile but Null %
ProfileCounts(c, profile) ==
    LET rows == NumRows(data)
    IN  /\ profile.Column = data[c].name
        /\ profile.NonNull = Cardinality(ValueRows(c))
        /\ profile.NonNull + profile.Null = rows
        /\ profile.Unique = Cardinality(DistinctValues(c))
        /\ Len(profile.Sample) = Min(MaxSamples, Cardinality(DistinctValues(c)))
        /\ \A i \in 1..Len(profile.Sample) : profile.Sample[i] \in DistinctValues(c)
        /\ \A i, j \in 1..Len(profile.Sample) :
             i < j => FirstRow(c, profile.Sample[i]) < FirstRow(c, profile.Sample[j])
        /\ \A v \in DistinctValues(c) :
             (\A i \in 1..Len(profile.Sample) : profile.Sample[i] # v)
             => \A i \in 1..Len(profile.Sample) :
                  FirstRow(c, profile.Sample[i]) < FirstRow(c, v)

\* C19 (as claimed): get_column_info returns one profile per column, in
\* column order, with Non-Null Count + Null Count the number of rows, Null %
\* equal to null_count/total*100, Unique Values the number of distinct
\* non-null values, and Sample Values the first (at most 3) distinct
\* non-null values in row order.
C19_ProfileExactPercent ==
    call.op = "get_column_info"
    => /\ ret.kind = "return"
       /\ Len(ret.val) = Len(data)
       /\ \A c \in 1..Len(data) :
            /\ ProfileCounts(c, ret.val[c])
            /\ NumRows(data) > 0 =>
                 /\ ~ret.val[c].NullPct.nan
                 /\ ret.val[c].NullPct.tenths * NumRows(data) = 1000 * ret.val[c].Null

\* C19 (amended): as claimed, with Null % the text of null_count/total*100
\* rounded to one decimal place (of the quotient 0/0, NaN, when the dataset
\* has no rows).
C19_ProfileRoundedPercent ==
    call.op = "get_column_info"
    => /\ ret.kind = "return"
       /\ Len(ret.val) = Len(data)
       /\ \A c \in 1..Len(data) :
            /\ ProfileCounts(c, ret.val[c])
            /\ ret.val[c].NullPct.nan <=> NumRows(data) = 0
            /\ NumRows(data) > 0 =>
                 2 * Abs(ret.val[c].NullPct.tenths * NumRows(data) - 1000 * ret.val[c].Null)
                    <= NumRows(data)

\* a column of more than 3 distinct values, one of them repeated before the
\* third is reached, with a null: 3 samples, and a Null % that is rounded
C19_Witness ==
    /\ call.op = "get_column_info"
    /\ \E c \in 1..Len(data) :
         /\ ret.val[c].Unique > MaxSamples
         /\ Len(ret.val[c].Sample) = MaxSamples
         /\ ret.val[c].NonNull > ret.val[c].Unique
         /\ ret.val[c].Null > 0
         /\ ret.val[c].NullPct.tenths * NumRows(data) # 1000 * ret.val[c].Null

\* C20: get_column_info on a dataset without rows, with or without columns,
\* yields an empty list of profiles, and neither an error nor an undefined
\* value of a division by zero.
C20_EmptyDatasetNoProfiles ==
    (call.op = "get_column_info" /\ NumRows(data) = 0)
    => /\ ret = Return(<<>>)
       /\ \A c \in 1..Len(ret.val) : ~ret.val[c].NullPct.nan

----------------------------------------------------------------------------
(* Properties of generate_all_insights (insights specification)            *)

\* C3: in generate_all_insights each category (key_findings, correlations,
\* outliers, trends, data_quality, distributions) is computed independently:
\* when computing one category fails, the categories that do not fail are
\* still computed and returned.
C3_CategoriesIndependent ==
    call.op = "generate_all_insights" =>
       \A k \in 1..Len(Categories) :
          Compute(data, Categories[k]).kind = "return"
          => /\ ret.kind = "return"
             /\ ret.val[Categories[k]] = Compute(data, Categories[k]).val

----------------------------------------------------------------------------
(* Properties of generate_key_findings and of the result of                *)
(* generate_all_insights (report specification)                            *)

\* the position of the column named col in the dataset, 0 if it has none
ColumnPos(col) ==
    IF \E c \in 1..Len(data) : data[c].name = col
    THEN CHOOSE c \in 1..Len(data) : data[c].name = col
    ELSE 0

MissingKinds == {"High missing data", "Low missing data", "Complete dataset"}

ColumnKinds == {"unique identifier", "low variability"}

\* C25: generate_key_findings returns at most 5 findings; the first three
\* are, in this order, the size finding, exactly one finding on missing data
\* and the finding on the mix of types; so at most two findings on
\* duplicates or on near-unique or near-constant columns follow, the one on
\* duplicates first and then those on columns in the order of the dataset.
C25_FindingsCappedAndOrdered ==
    (call.op = "generate_key_findings" /\ ret.kind = "return")
    => LET f == ret.val
       IN  /\ Len(f) >= 3 /\ Len(f) <= 5
           /\ f[1].kind = "size" /\ f[1].n = NumRows(data) /\ f[1].m = Len(data)
           /\ f[2].kind \in MissingKinds
           /\ f[3].kind = "Data types"
           /\ \A i \in 4..Len(f) : f[i].kind \in ColumnKinds \cup {"duplicate records"}
           /\ \A i \in 5..Len(f) : f[i].kind \in ColumnKinds
           /\ Duplicates(data) > 0 => (Len(f) >= 4 /\ f[4].kind = "duplicate records")
           /\ \A i, j \in 4..Len(f) :
                (i < j /\ f[i].kind \in ColumnKinds)
                => (0 < ColumnPos(f[i].col) /\ ColumnPos(f[i].col) < ColumnPos(f[j].col))

\* six findings were made and five returned: on the dataset of 101 equal
\* rows the duplicates come fourth and the low variability of the first
\* column fifth, and that of the second column is cut off
C25_Witness ==
    /\ call.op = "generate_key_findings"
    /\ data = ExampleLowVariability
    /\ Len(ret.val) = 5
    /\ ret.val[4] = Finding("duplicate records", 100, 101, "")
    /\ ret.val[5] = Finding("low variability", 0, 0, "A")

\* C29: for a dataset with rows, the missing percentage of the key findings
\* and the completeness of the quality summary sum to 100; the finding is
\* 'Complete dataset' iff completeness = 100, 'High missing data' iff
\* completeness < 90 and 'Low missing data' otherwise; and the
\* recommendation to handle missing values is never made with the
\* 'Complete dataset' finding.
C29_MissingAndCompleteness ==
    (call.op = "generate_all_insights" /\ NumRows(data) > 0 /\ ret.kind = "return")
    => LET miss == ret.val.key_findings[2]
           comp == ret.val.data_quality.completeness
           recs == ret.val.data_quality.recommendations
       IN  /\ ~comp.nan
           /\ miss.kind # "Complete dataset"
                => miss.n * comp.den + comp.num * miss.m = 100 * miss.m * comp.den
           /\ miss.kind = "Complete dataset" <=> comp.num = 100 * comp.den
           /\ miss.kind = "High missing data" <=> comp.num < 90 * comp.den
           /\ miss.kind = "Low missing data"
                <=> (comp.num >= 90 * comp.den /\ comp.num < 100 * comp.den)
           /\ ~(/\ miss.kind = "Complete dataset"
                /\ \E k \in 1..Len(recs) : recs[k].kind = "Consider handling missing values")

\* a completeness of exactly 90 (2 nulls in 20 cells): the finding is
\* 'Low missing data' of 10% and the recommendation on missing values is made
C29_Witness ==
    /\ call.op = "generate_all_insights"
    /\ ret.kind = "return"
    /\ NullCount(data) = 2 /\ NumRows(data) * Len(data) = 20
    /\ ret.val.key_findings[2].kind = "Low missing data"
    /\ ret.val.data_quality.completeness.num = 90 * ret.val.data_quality.completeness.den
    /\ \E k \in 1..Len(ret.val.data_quality.recommendations) :
         ret.val.data_quality.recommendations[k].kind = "Consider handling missing values"

\* the number of IQR outliers of column c
IqrCount(c) == Len(detect_outliers(data, data[c].name, "iqr").ret.val)

\* C30: in the result of generate_all_insights, the outliers list has an
\* entry for a numeric column iff the column has an IQR outlier, with that
\* number as its count and count / rows * 100, above 0 and at most 100, as
\* its percentage; and every column of an 'Investigate outliers'
\* recommendation is in the list with a count above 5% of the rows.
C30_OutlierListAndRecommendations ==
    (call.op = "generate_all_insights" /\ ret.kind = "return")
    => LET out  == ret.val.outliers
           recs == ret.val.data_quality.recommendations
       IN  /\ \A c \in 1..Len(data) :
                LET listed == {i \in 1..Len(out) : out[i].column = data[c].name}
                IN  /\ Cardinality(listed) = (IF /\ data[c].dtype \in {"int64", "float64"}
                                                 /\ IqrCount(c) > 0
                                              THEN 1 ELSE 0)
                    /\ \A i \in listed :
                         /\ out[i].count = IqrCount(c)
                         /\ ~out[i].percentage.nan
                         /\ out[i].percentage.num * NumRows(data)
                              = 100 * out[i].count * out[i].percentage.den
                         /\ out[i].percentage.num > 0
                         /\ out[i].percentage.num <= 100 * out[i].percentage.den
           /\ \A i \in 1..Len(out) : ColumnPos(out[i].column) > 0
           /\ \A k \in 1..Len(recs) :
                recs[k].kind = "Investigate outliers"
                => \E i \in 1..Len(out) :
                     /\ out[i].column = recs[k].col
                     /\ 20 * out[i].count > NumRows(data)

\* a column of 19 rows with one outlier (more than 5% of them) is listed
\* with a count of 1 and is recommended for investigation
C30_Witness ==
    /\ call.op = "generate_all_insights"
    /\ ret.kind = "return"
    /\ NumRows(data) = 19
    /\ Len(ret.val.outliers) = 1
    /\ ret.val.outliers[1].count = 1
    /\ \E k \in 1..Len(ret.val.data_quality.recommendations) :
         ret.val.data_quality.recommendations[k]
            = Recommendation("Investigate outliers", 0, ret.val.outliers[1].column)

----------------------------------------------------------------------------
(* Properties of the operations together (purity specification)            *)

----------------------------------------------------------------------------
(* Properties of the upload app (app specification)                        *)

\* the run under way was started by a load action: a file newly chosen or
\* a sample-data button pressed
LoadAction == app.pressed \in {"file_uploader"} \cup SampleButtons

\* the step is the upload section of a run
UploadStep == app.pc = "upload" /\ Len(app'.ran) = 1

\* C23: the dataset is loaded once per load action: once a dataset is in the
\* session, the upload section of a run that was started by no load action
\* (no newly chosen file, no sample-data button) reads no file and leaves
\* session data, processor and insights as they are; so a dataset loaded by
\* a sample-data button stays until the next load action.
C23_LoadedOncePerLoadAction ==
    [][(UploadStep /\ ~session.data.none /\ ~LoadAction)
       => (app'.reads = 0 /\ session' = session)]_vars

\* C24: when reading the uploaded file fails, upload_section shows an error
\* message, reads once, goes on with the run, and leaves session data,
\* processor and insights exactly as they were (a sample-data button pressed
\* for the same run loads its dataset whole).
C24_FailedReadLeavesSession ==
    [][(/\ UploadStep
        /\ ~app.uploaded_file.none
        /\ ReadFile(app.uploaded_file.val).kind = "raise")
       => /\ app'.error
          /\ app'.reads = 1
          /\ app'.pc = "overview" /\ ~app'.raised
          /\ app.pressed \notin SampleButtons => session' = session
          /\ app.pressed = "Sales Data"
               => session' = Loaded(session, generate_sample_sales_data)
          /\ app.pressed = "Customer Data"
               => session' = Loaded(session, generate_sample_customer_data)]_vars

\* the read of a broken file has failed in a session that held the sample
\* sales data and its insights: the error is shown and all three are kept
C24_Witness ==
    /\ app.pc = "overview"
    /\ app.uploaded_file = Some(BrokenFile)
    /\ app.error /\ app.reads = 1
    /\ session.data = Some(generate_sample_sales_data)
    /\ session.processor = Some([data |-> generate_sample_sales_data])
    /\ ~session.insights.none

\* C26: the insights in the session, when not None, are those of the
\* dataset in the session: every load action resets them to None and they
\* are only ever computed from the dataset the session holds.
C26_InsightsOfSessionData ==
    ~session.insights.none
    => /\ ~session.data.none
       /\ generate_all_insights(session.data.val).kind = "return"
       /\ session.insights.val = generate_all_insights(session.data.val).val

\* the insights of the customer data are in the session at the end of a
\* run, with a file that cannot be read in the uploader
C26_Witness ==
    /\ app.pc = "idle"
    /\ app.uploaded_file = Some(BrokenFile)
    /\ session.data = Some(generate_sample_customer_data)
    /\ ~session.insights.none
    /\ session.insights.val.key_findings[1].n = 5

\* C27: session processor is None exactly when session data is None, and a
\* processor that is not None wraps the dataset that is in session data.
C27_ProcessorWrapsSessionData ==
    /\ session.processor.none <=> session.data.none
    /\ ~session.processor.none => session.processor.val.data = session.data.val

\* the file chosen for the run has been loaded by its upload section: the
\* processor is the one of the file's dataset
C27_Witness ==
    /\ app.pc = "overview"
    /\ app.pressed = "file_uploader"
    /\ session.data = Some(CsvFile.df)
    /\ session.processor = Some([data |-> CsvFile.df])

\* the sections a run has executed, by name
RanSections == [k \in 1..Len(app.ran) |-> app.ran[k].section]

\* C28: in each run of main the upload section executes before the
\* overview, insights and charts sections; each of the three executes only
\* with a dataset in session data, so none works on None; and they find the
\* dataset the upload section of the same run left in the session.
C28_SectionsAfterUploadWithData ==
    /\ app.pc # "upload" => (Len(app.ran) >= 1 /\ app.ran[1].section = "upload")
    /\ \A k \in 2..Len(app.ran) :
         /\ app.ran[k].section \in {"overview", "insights", "charts"}
         /\ ~app.ran[k].data.none
         /\ app.ran[k].data = app.ran[1].data
    /\ \A j, k \in 1..Len(app.ran) :
         (j < k /\ app.ran[j].section = "insights") => app.ran[k].section = "charts"
    /\ \A j, k \in 1..Len(app.ran) : j # k => app.ran[j].section # app.ran[k].section

\* a run that loaded the file chosen for it, its first dataset, and went
\* through all four sections with it
C28_Witness ==
    /\ app.pc = "idle"
    /\ app.pressed = "file_uploader"
    /\ RanSections = <<"upload", "overview", "insights", "charts">>
    /\ \A k \in 1..4 : app.ran[k].data = Some(CsvFile.df)

====
